---- MODULE Spec2Model ----
(***************************************************************************)
(* Model of the adaptive extraction pipeline of Web_Scraper (scraper.py):  *)
(* parse_html, scrape_static, scrape_with_playwright and scrape_smart.     *)
(* One scrape task runs scrape_smart(url); every await of the code is one  *)
(* step of the task, whose outcome (success, exception, cancellation) is   *)
(* chosen by the environment.                                              *)
(***************************************************************************)
EXTENDS Integers, Sequences, FiniteSets, TLC

(***************************************************************************)
(* Strings are sequences of one-character strings, so that lower(),        *)
(* strip(), == and "in" are computed as Python computes them.              *)
(***************************************************************************)
UpperChars == <<"A","B","C","D","E","F","G","H","I","J","K","L","M",
                "N","O","P","Q","R","S","T","U","V","W","X","Y","Z">>

LowerChars == <<"a","b","c","d","e","f","g","h","i","j","k","l","m",
                "n","o","p","q","r","s","t","u","v","w","x","y","z">>

\* str.lower() on one character
LowerChar(c) ==
    IF \E k \in DOMAIN UpperChars : UpperChars[k] = c
    THEN LowerChars[CHOOSE k \in DOMAIN UpperChars : UpperChars[k] = c]
    ELSE c

\* str.lower()
Lower(s) == [k \in DOMAIN s |-> LowerChar(s[k])]

IsSpace(c) == c \in {" ", "\n", "\t"}

RECURSIVE LStrip(_)
LStrip(s) == IF s # << >> /\ IsSpace(Head(s)) THEN LStrip(Tail(s)) ELSE s

RECURSIVE RStrip(_)
RStrip(s) ==
    IF s # << >> /\ IsSpace(s[Len(s)]) THEN RStrip(SubSeq(s, 1, Len(s) - 1)) ELSE s

\* str.strip()
Strip(s) == RStrip(LStrip(s))

\* Python's  sub in s
Contains(s, sub) ==
    \E k \in 1..(Len(s) - Len(sub) + 1) : SubSeq(s, k, k + Len(sub) - 1) = sub

(***************************************************************************)
(* Literals of the source.                                                 *)
(***************************************************************************)
More == <<"M","o","r","e">>

interaction_keywords ==
    << <<"l","o","a","d"," ","m","o","r","e">>,
       <<"s","h","o","w"," ","m","o","r","e">>,
       <<"n","e","x","t"," ","p","a","g","e">>,
       <<"m","o","r","e"," ","a","r","t","i","c","l","e","s">> >>

LinkFallback == <<"l","i","n","k">>

\* the 200-character sufficiency cutoff
MinTextLen == 200

\* range(3): the bound of the interaction loop
LoopIterations == 3

(***************************************************************************)
(* The web.  An HTML document is the tree BeautifulSoup builds from it,    *)
(* reduced to what parse_html reads: the title element, the description,   *)
(* lang and canonical values, the structural containers in document order  *)
(* and the body.  The text of a container is kept by its length, the       *)
(* anchors by the text get_text(strip=True) returns for them.              *)
(***************************************************************************)
Absent == "absent"

\* no <title> element: soup.title is None
NoTitle == [kind |-> "absent", string |-> << >>]

\* a <title> element that is empty or has nested children: .string is None
TitleNoString == [kind |-> "nostring", string |-> << >>]

\* a <title> element with the single string s
Title(s) == [kind |-> "string", string |-> s]

\* one whitespace-separated token of a text
Word == <<"w","o","r","d">>

\* a string of n characters c
Rep(c, n) == [k \in 1..n |-> c]

\* An element as parse_html reads it: its tag name, the length of
\* get_text(" ", strip=True), the texts of its anchors, the text of its first
\* h1/h2/h3 (a sequence of at most one string), the leading tokens of
\* get_text(strip=True).split() and whether it lies inside another structural
\* element.
ElemFull(name, len, anchors, heading, preview, nested) ==
    [name |-> name, text_len |-> len, anchors |-> anchors, heading |-> heading,
     preview |-> preview, nested |-> nested]

\* an element without heading whose text starts with the token "word"
Elem(name, len, anchors) == ElemFull(name, len, anchors, << >>, <<Word>>, FALSE)

(***************************************************************************)
(* A document tree: a node has a tag name, the strings directly in it (one *)
(* token each), the anchors directly in it and its child elements.         *)
(***************************************************************************)
StructuralTags == {"header", "main", "section", "footer", "article", "nav"}

HeadingTags == {"h1", "h2", "h3"}

Node(name, strings, anchors, kids) ==
    [name |-> name, strings |-> strings, anchors |-> anchors, kids |-> kids]

RECURSIVE NodeStrings(_)
RECURSIVE KidsStrings(_)
\* the strings of the subtree, in document order
NodeStrings(n) == n.strings \o KidsStrings(n.kids)

KidsStrings(kids) ==
    IF kids = << >> THEN << >> ELSE NodeStrings(Head(kids)) \o KidsStrings(Tail(kids))

RECURSIVE NodeAnchors(_)
RECURSIVE KidsAnchors(_)
\* the anchors of the subtree, in document order
NodeAnchors(n) == n.anchors \o KidsAnchors(n.kids)

KidsAnchors(kids) ==
    IF kids = << >> THEN << >> ELSE NodeAnchors(Head(kids)) \o KidsAnchors(Tail(kids))

RECURSIVE NodeHeadings(_)
RECURSIVE KidsHeadings(_)
\* the h1/h2/h3 elements of the subtree below n, in document order, by their text
NodeHeadings(n) == KidsHeadings(n.kids)

KidsHeadings(kids) ==
    IF kids = << >> THEN << >>
    ELSE (IF Head(kids).name \in HeadingTags THEN <<NodeStrings(Head(kids))>> ELSE << >>)
            \o NodeHeadings(Head(kids)) \o KidsHeadings(Tail(kids))

RECURSIVE Concat(_)
\* "".join(strings)
Concat(strings) == IF strings = << >> THEN << >> ELSE Head(strings) \o Concat(Tail(strings))

RECURSIVE SumLen(_)
SumLen(strings) == IF strings = << >> THEN 0 ELSE Len(Head(strings)) + SumLen(Tail(strings))

\* len(" ".join(strings))
JoinedLen(strings) == IF strings = << >> THEN 0 ELSE SumLen(strings) + Len(strings) - 1

\* the element parse_html reads for node n
ElemOf(n, nested) ==
    ElemFull(n.name, JoinedLen(NodeStrings(n)), NodeAnchors(n),
             IF NodeHeadings(n) = << >> THEN << >> ELSE <<Concat(NodeHeadings(n)[1])>>,
             IF NodeStrings(n) = << >> THEN << >> ELSE <<Concat(NodeStrings(n))>>,
             nested)

RECURSIVE FindAll(_, _)
RECURSIVE FindAllKids(_, _)
\* soup.find_all(structural tags): every match of the subtree, nested
\* matches included, in document order
FindAll(n, nested) ==
    (IF n.name \in StructuralTags THEN <<ElemOf(n, nested)>> ELSE << >>)
        \o FindAllKids(n.kids, nested \/ n.name \in StructuralTags)

FindAllKids(kids, nested) ==
    IF kids = << >> THEN << >>
    ELSE FindAll(Head(kids), nested) \o FindAllKids(Tail(kids), nested)

\* description and body are sequences of at most one element (<< >> when absent)
Html(title, lang, containers, body) ==
    [title |-> title, description |-> << >>, lang |-> lang, canonical |-> Absent,
     containers |-> containers, body |-> body]

TitleT == Title(<<"T">>)

TextGo == <<"g","o">>

TextMoreLower == <<"m","o","r","e">>

TextMoreUpper == <<"M","O","R","E">>

TextLoadMore == <<"L","o","a","d"," ","M","o","r","e"," ","n","o","w">>

\* a complete article: title, 250 characters of text, an ordinary link
PageFull ==
    Html(TitleT, "fr", <<Elem("header", 50, << >>), Elem("main", 200, <<TextGo>>)>>,
         <<Elem("body", 250, <<TextGo>>)>>)

\* exactly at the cutoff, with an anchor that has no text
PageEdge ==
    Html(Title(<<" ","T"," ">>), Absent, <<Elem("article", 200, << << >> >>)>>,
         <<Elem("body", 200, << << >> >>)>>)

\* a JavaScript shell: title, 150 characters of text
PageThin == Html(TitleT, "en", <<Elem("main", 150, << >>)>>, <<Elem("body", 150, << >>)>>)

\* no structural container: the body is the only section; blank title
PageBodyOnly == Html(Title(<<" ">>), Absent, << >>, <<Elem("body", 300, <<TextGo>>)>>)

\* no title element at all
PageNoTitle ==
    Html(NoTitle, Absent, <<Elem("section", 300, << >>)>>, <<Elem("body", 300, << >>)>>)

\* <title></title>: soup.title.string is None
PageTitleNoString ==
    Html(TitleNoString, Absent, <<Elem("main", 300, << >>)>>, <<Elem("body", 300, << >>)>>)

\* a listing page with the exact link "More"
PageMore ==
    Html(TitleT, Absent, <<Elem("main", 300, <<TextGo, More>>), Elem("footer", 20, << >>)>>,
         <<Elem("body", 320, <<TextGo, More>>)>>)

\* the same link in lower case
PageMoreLower ==
    Html(TitleT, Absent, <<Elem("main", 300, <<TextMoreLower>>)>>,
         <<Elem("body", 300, <<TextMoreLower>>)>>)

\* the same link in upper case
PageMoreUpper ==
    Html(TitleT, Absent, <<Elem("nav", 300, <<TextMoreUpper>>)>>,
         <<Elem("body", 300, <<TextMoreUpper>>)>>)

\* a link whose text contains "load more"
PageLoadMore ==
    Html(TitleT, Absent, <<Elem("main", 300, <<TextGo>>), Elem("section", 40, <<TextLoadMore>>)>>,
         <<Elem("body", 340, <<TextGo, TextLoadMore>>)>>)

\* no body and no container: zero sections
PageEmpty == Html(TitleT, Absent, << >>, << >>)

\* the document of a body tree
HtmlFromTree(title, lang, body) ==
    Html(title, lang, FindAllKids(body.kids, FALSE), <<ElemOf(body, FALSE)>>)

TextHi == <<"H","i">>

\* <body><main><h1>Hi</h1>aaa...<section>bbb...<a>go</a></section></main>
\* <footer>word</footer></body>: a section nested in main
PageNested ==
    HtmlFromTree(TitleT, "fr",
        Node("body", << >>, << >>,
             <<Node("main", <<Rep("a", 120)>>, << >>,
                    <<Node("h1", <<TextHi>>, << >>, << >>),
                      Node("section", <<Rep("b", 90), TextGo>>, <<TextGo>>, << >>)>>),
               Node("footer", <<Word>>, << >>, << >>)>>))

\* containers whose labels come from a long heading, from a long first token
\* and from no text at all
PageLabels ==
    Html(TitleT, Absent,
         <<ElemFull("article", 260, << >>, <<Rep("h", 60)>>, <<Rep("h", 60), Word>>, FALSE),
           ElemFull("main", 51, << >>, << >>, <<Rep("a", 51)>>, FALSE),
           ElemFull("nav", 0, << >>, << >>, << >>, FALSE)>>,
         <<ElemFull("body", 312, << >>, <<Rep("h", 60)>>, <<Rep("h", 60), Word>>, FALSE)>>)

\* the documents the server may answer the HTTP GET with
Pages ==
    {PageFull, PageEdge, PageThin, PageBodyOnly, PageNoTitle, PageTitleNoString,
     PageMore, PageMoreLower, PageMoreUpper, PageLoadMore, PageEmpty, PageNested,
     PageLabels}

\* the documents the browser may hold when the DOM is captured
RenderedPages == {PageFull, PageTitleNoString}

(***************************************************************************)
(* models.py                                                               *)
(***************************************************************************)
\* Meta(): the defaults of the model class
DefaultMeta == [title |-> << >>, description |-> << >>, language |-> "en", canonical |-> Absent]

\* Interactions(): the defaults of the model class.  pages is a list the code
\* only ever fills with distinct URLs, in an order list(set) leaves open: it is
\* kept as the set of its elements.
DefaultInteractions == [clicks |-> << >>, scrolls |-> 0, pages |-> {}]

Error(message, phase) == [message |-> message, phase |-> phase]

ScrapeResult(u, meta, sections, interactions, errs) ==
    [url |-> u, meta |-> meta, sections |-> sections, interactions |-> interactions,
     errors |-> errs]

(***************************************************************************)
(* parse_html                                                              *)
(***************************************************************************)
\* line 14: soup.title.string.strip() raises AttributeError when string is None
TitleRaises(html) == html.title.kind = "nostring"

\* line 14
ParseTitle(html) == IF html.title.kind = "absent" THEN << >> ELSE Strip(html.title.string)

ParseMeta(html) ==
    [title |-> ParseTitle(html),
     description |-> IF html.description = << >> THEN << >> ELSE Strip(html.description[1]),
     language |-> IF html.lang = Absent \/ html.lang = "" THEN "en" ELSE html.lang,
     canonical |-> html.canonical]

IsTopLevel(c) == ~c.nested

\* lines 33-35 with nested matches dropped
Containers_TopLevel(html) ==
    IF html.containers # << >> THEN SelectSeq(html.containers, IsTopLevel)
    ELSE html.body

\* lines 33-35: the structural elements, else the body, else nothing
Containers(html) ==
    IF html.containers # << >> THEN html.containers
    ELSE html.body

SecType(name) == IF name \in {"nav", "footer", "header"} THEN name ELSE "section"

\* line 59: a.get_text(strip=True) or "link"
LinkText(t) == IF t = << >> THEN LinkFallback ELSE t

RECURSIVE JoinWords(_)
\* " ".join(words)
JoinWords(words) ==
    IF words = << >> THEN << >>
    ELSE IF Len(words) = 1 THEN words[1]
    ELSE words[1] \o <<" ">> \o JoinWords(Tail(words))

\* s[:n]
Prefix(s, n) == SubSeq(s, 1, IF Len(s) < n THEN Len(s) ELSE n)

EmptySection ==
    <<"E","m","p","t","y"," ","S","e","c","t","i","o","n">>

\* lines 42-48
Label(c) ==
    IF c.heading # << >> THEN Prefix(c.heading[1], 50)
    ELSE IF JoinWords(Prefix(c.preview, 5)) = << >> THEN EmptySection
    ELSE JoinWords(Prefix(c.preview, 5))

ParseSection(c, k, final_url) ==
    [id |-> k - 1,
     type |-> SecType(c.name),
     label |-> Label(c),
     sourceUrl |-> final_url,
     text_len |-> c.text_len,
     links |-> [j \in DOMAIN c.anchors |-> LinkText(c.anchors[j])]]

ParseSections(html, final_url) ==
    [k \in DOMAIN Containers(html) |-> ParseSection(Containers(html)[k], k, final_url)]

\* the value parse_html returns, when it returns
parse_html(html, final_url) ==
    [meta |-> ParseMeta(html), sections |-> ParseSections(html, final_url)]

(***************************************************************************)
(* Bounds of the model and the addresses of the modelled web.              *)
(***************************************************************************)
\* page heights range over 0..MaxHeight
MaxHeight == 1

\* the hosting server cancels a task at most MaxCancels times
MaxCancels == 1

\* the requested URL
U0 == "https://ex.com/p"

\* where U0 redirects to, when it redirects
U1 == "https://ex.com/final"

\* where a click on the affordance leads, when it navigates
U2 == "https://ex.com/p?page=2"

\* the URL of a page that has not navigated yet
Blank == "about:blank"

ButtonTexts == {More}

VARIABLES
    pc,               \* the position of the scrape task
    url,              \* the argument of scrape_smart
    static_result,    \* scrape_smart: static_result
    branch,           \* which call site of scrape_with_playwright is active
    js_result,        \* the value scrape_with_playwright returns
    result,           \* the Document scrape_smart returned
    driver,           \* the Playwright driver of async_playwright()
    browser,          \* the browser session (browser and context)
    page_url,         \* page.url
    height,           \* document.body.scrollHeight of the page
    errors,           \* scrape_with_playwright: errors
    visited_pages,    \* scrape_with_playwright: visited_pages
    clicks_performed, \* scrape_with_playwright: clicks_performed
    scroll_count,     \* scrape_with_playwright: scroll_count
    i,                \* the loop variable of the interaction loop
    previous_height,  \* scrape_with_playwright: previous_height
    btn_text,         \* scrape_with_playwright: btn_text
    extracted,        \* scrape_with_playwright: meta, sections
    pending,          \* the exception being propagated, if any
    fetch,            \* history: what client.get did
    created,          \* history: every Error constructed in this invocation
    render_runs,      \* history: the calls of scrape_with_playwright
    cancels,          \* history: the cancellations requested
    grew,             \* history: some iteration saw the height grow
    found,            \* history: query_selector found an affordance
    loop_raised,      \* history: a step of some iteration raised
    skipped_scrolls,  \* history: the iterations that raised before line 143
    static_runs,      \* history: the calls of client.get
    navigations,      \* history: the calls of page.goto
    after_scroll      \* history: page.url right after each completed scroll step

vars ==
    <<pc, url, static_result, branch, js_result, result, driver, browser, page_url,
      height, errors, visited_pages, clicks_performed, scroll_count, i, previous_height,
      btn_text, extracted, pending, fetch, created, render_runs, cancels, grew, found,
      loop_raised, skipped_scrolls, static_runs, navigations, after_scroll>>

\* the locals of scrape_with_playwright and the browser
render_vars ==
    <<driver, browser, page_url, height, errors, visited_pages, clicks_performed,
      scroll_count, i, previous_height, btn_text, extracted, js_result>>

\* no Document: the value of a result variable that is not assigned yet
NoDoc == ScrapeResult("none", DefaultMeta, << >>, DefaultInteractions, << >>)

NoExtract == [meta |-> DefaultMeta, sections |-> << >>]

\* client.get has not completed
NoFetch == [kind |-> "none", status |-> 0, final_url |-> "none", html |-> PageEmpty]

\* client.get raised
FetchError(cause) == [kind |-> cause, status |-> 0, final_url |-> "none", html |-> PageEmpty]

\* client.get returned a response
FetchResponse(status, final_url, html) ==
    [kind |-> "response", status |-> status, final_url |-> final_url, html |-> html]

\* the responses of the modelled server: every page at the requested URL, two
\* of them also behind a redirect, and two error statuses with an error page
Responses ==
    {FetchResponse(200, U0, html) : html \in Pages}
        \cup {FetchResponse(200, U1, html) : html \in {PageFull, PageThin}}
        \cup {FetchResponse(404, U0, PageThin), FetchResponse(500, U1, PageThin)}

Init ==
    /\ pc = "static_get"
    /\ url \in {U0}
    /\ static_result = NoDoc
    /\ branch = "none"
    /\ js_result = NoDoc
    /\ result = NoDoc
    /\ driver = "none"
    /\ browser = "none"
    /\ page_url = Blank
    /\ height = 0
    /\ errors = << >>
    /\ visited_pages = {}
    /\ clicks_performed = << >>
    /\ scroll_count = 0
    /\ i = 0
    /\ previous_height = 0
    /\ btn_text = << >>
    /\ extracted = NoExtract
    /\ pending = "none"
    /\ fetch = NoFetch
    /\ created = {}
    /\ render_runs = 0
    /\ cancels = 0
    /\ grew = FALSE
    /\ found = FALSE
    /\ loop_raised = FALSE
    /\ skipped_scrolls = 0
    /\ static_runs = 0
    /\ navigations = 0
    /\ after_scroll = {}

(***************************************************************************)
(* scrape_static                                                           *)
(***************************************************************************)
\* lines 108-115: the except branch
StaticFailure(u, cause) ==
    ScrapeResult(u, DefaultMeta, << >>, DefaultInteractions,
                 <<Error(<<"Static error", cause>>, "fetch")>>)

\* lines 95-107: the response passed raise_for_status
StaticSuccess(u, final_url, html) ==
    ScrapeResult(u, parse_html(html, final_url).meta, parse_html(html, final_url).sections,
                 [DefaultInteractions EXCEPT !.pages = {final_url}], << >>)

\* lines 94-115, once client.get has returned a response
StaticFromResponse(u, status, final_url, html) ==
    IF status \notin 200..299 THEN StaticFailure(u, "HTTPStatusError")
    ELSE IF TitleRaises(html) THEN StaticFailure(u, "AttributeError")
    ELSE StaticSuccess(u, final_url, html)

\* client.get raises (network error, timeout, too many redirects)
StaticRequestFails ==
    /\ pc = "static_get"
    /\ \E cause \in {"ConnectError", "TimeoutException"} :
          /\ fetch' = FetchError(cause)
          /\ static_result' = StaticFailure(url, cause)
          /\ created' = created \cup {static_result'.errors[1]}
    /\ pc' = "judge"
    /\ static_runs' = static_runs + 1
    /\ UNCHANGED <<url, branch, result, pending, render_runs, cancels, grew, found,
                   loop_raised, skipped_scrolls, navigations, after_scroll>>
    /\ UNCHANGED render_vars

\* client.get returns the response of the final (post-redirect) URL
StaticResponse ==
    /\ pc = "static_get"
    /\ \E r \in Responses :
          /\ fetch' = r
          /\ static_result' = StaticFromResponse(url, r.status, r.final_url, r.html)
          /\ created' = created \cup {static_result'.errors[k] : k \in DOMAIN static_result'.errors}
    /\ pc' = "judge"
    /\ static_runs' = static_runs + 1
    /\ UNCHANGED <<url, branch, result, pending, render_runs, cancels, grew, found,
                   loop_raised, skipped_scrolls, navigations, after_scroll>>
    /\ UNCHANGED render_vars

(***************************************************************************)
(* scrape_smart: the judgement of the lightweight result                   *)
(***************************************************************************)
RECURSIVE SumTextLen(_)
SumTextLen(sections) ==
    IF sections = << >> THEN 0 ELSE Head(sections).text_len + SumTextLen(Tail(sections))

\* line 199
TotalTextLen(doc) == SumTextLen(doc.sections)

\* line 200 without the length test
Insufficient_NoLengthTest(doc) ==
    \/ doc.errors # << >>
    \/ doc.meta.title = << >>

\* line 200 with <= for <
Insufficient_Inclusive(doc) ==
    \/ doc.errors # << >>
    \/ SumTextLen(doc.sections) <= MinTextLen
    \/ doc.meta.title = << >>

\* line 200
Insufficient(doc) ==
    \/ doc.errors # << >>
    \/ TotalTextLen(doc) < MinTextLen
    \/ doc.meta.title = << >>

\* the link texts of all sections
LinkTexts(doc) ==
    UNION {{doc.sections[k].links[j] : j \in DOMAIN doc.sections[k].links} :
           k \in DOMAIN doc.sections}

\* line 210 comparing the lower-cased text, as line 211 does
HasExactMore_AnyCase(doc) == \E t \in LinkTexts(doc) : Lower(Strip(t)) = Lower(More)

\* line 210
HasExactMore(doc) == \E t \in LinkTexts(doc) : Strip(t) = More

\* lines 207, 208, 211
HasInteractionCues(doc) ==
    \E t \in LinkTexts(doc) : \E k \in DOMAIN interaction_keywords :
        Contains(Lower(t), interaction_keywords[k])

\* lines 119-124: the call of scrape_with_playwright, up to its first await
EnterRenderer ==
    /\ pc' = "pw_enter"
    /\ render_runs' = render_runs + 1
    /\ errors' = << >>
    /\ visited_pages' = {url}
    /\ clicks_performed' = << >>
    /\ scroll_count' = 0
    /\ UNCHANGED <<url, static_result, js_result, result, driver, browser, page_url,
                   height, i, previous_height, btn_text, extracted, pending, fetch,
                   created, cancels, grew, found, loop_raised, skipped_scrolls,
                   static_runs, navigations, after_scroll>>

\* lines 200-202
EscalateInsufficient ==
    /\ pc = "judge"
    /\ Insufficient(static_result)
    /\ branch' = "insufficient"
    /\ EnterRenderer

\* lines 207-215
EscalateOnCues ==
    /\ pc = "judge"
    /\ ~Insufficient(static_result)
    /\ HasInteractionCues(static_result) \/ HasExactMore(static_result)
    /\ branch' = "cues"
    /\ EnterRenderer

\* lines 218-219
ReturnStatic ==
    /\ pc = "judge"
    /\ ~Insufficient(static_result)
    /\ ~(HasInteractionCues(static_result) \/ HasExactMore(static_result))
    /\ result' = static_result
    /\ pc' = "done"
    /\ UNCHANGED <<url, static_result, branch, pending, fetch, created, render_runs,
                   cancels, grew, found, loop_raised, skipped_scrolls, static_runs,
                   navigations, after_scroll>>
    /\ UNCHANGED render_vars

\* lines 203-204 with the static errors put first
MergeErrors_Prepended(js, static) ==
    IF static.errors # << >> THEN [js EXCEPT !.errors = static.errors \o js.errors] ELSE js

\* lines 203-204 left out
MergeErrors_Dropped(js, static) == js

\* lines 203-204: js_result.errors.extend(static_result.errors)
MergeErrors(js, static) ==
    IF static.errors # << >> THEN [js EXCEPT !.errors = js.errors \o static.errors] ELSE js

\* lines 203-205 and 216: scrape_with_playwright has returned
ReturnRendered ==
    /\ pc = "rendered"
    /\ result' = IF branch = "insufficient" THEN MergeErrors(js_result, static_result)
                 ELSE js_result
    /\ pc' = "done"
    /\ UNCHANGED <<url, static_result, branch, pending, fetch, created, render_runs,
                   cancels, grew, found, loop_raised, skipped_scrolls, static_runs,
                   navigations, after_scroll>>
    /\ UNCHANGED render_vars

(***************************************************************************)
(* scrape_with_playwright                                                  *)
(***************************************************************************)
smart_vars == <<url, static_result, branch, result, render_runs, fetch>>

loc_vars ==
    <<errors, visited_pages, clicks_performed, scroll_count, i, previous_height,
      btn_text, extracted>>

env_vars == <<driver, browser, page_url, height>>

\* lines 185-192: the Document of the except branch
FatalResult(u, cause) ==
    ScrapeResult(u, DefaultMeta, << >>, DefaultInteractions,
                 <<Error(<<"Playwright fatal error", cause>>, "render")>>)

\* lines 185-192: an exception raised inside the outer try
Fatal(cause) ==
    /\ js_result' = FatalResult(url, cause)
    /\ created' = created \cup {js_result'.errors[1]}
    /\ pc' = "pw_exit"
    /\ UNCHANGED <<smart_vars, loc_vars, env_vars, pending, cancels, grew, found,
                   loop_raised, skipped_scrolls, static_runs, navigations, after_scroll>>

\* lines 139-143: the steps of an iteration that precede the increment of line 143
BeforeCount == {"read_prev", "scroll", "settle"}

\* line 160 turning the exception of a step into a render Error of the Document
Swallow_Surfaced ==
    /\ pc' = "except"
    /\ loop_raised' = TRUE
    /\ skipped_scrolls' = IF pc \in BeforeCount THEN skipped_scrolls + 1 ELSE skipped_scrolls
    /\ errors' = Append(errors, Error(<<"Interaction error", pc>>, "render"))
    /\ UNCHANGED <<smart_vars, visited_pages, clicks_performed, scroll_count, i,
                   previous_height, btn_text, extracted, env_vars, js_result, pending,
                   created, cancels, grew, found, static_runs, navigations,
                   after_scroll>>

\* line 160: an exception raised by a step of one iteration enters the handler
Swallow ==
    /\ pc' = "except"
    /\ loop_raised' = TRUE
    /\ skipped_scrolls' = IF pc \in BeforeCount THEN skipped_scrolls + 1 ELSE skipped_scrolls
    /\ UNCHANGED <<smart_vars, loc_vars, env_vars, js_result, pending, created, cancels,
                   grew, found, static_runs, navigations, after_scroll>>

\* line 136
NavigationWarning(cause) == Error(<<"Navigation warning", cause>>, "render")

\* lines 135-136 followed by a second attempt of line 133
RecordNavigationError_Retry(cause) ==
    /\ errors' = errors
    /\ created' = created
    /\ i' = 0
    /\ pc' = "goto"

\* lines 135-136, then the first iteration of the loop
RecordNavigationError(cause) ==
    /\ errors' = Append(errors, NavigationWarning(cause))
    /\ created' = created \cup {NavigationWarning(cause)}
    /\ i' = 0
    /\ pc' = "read_prev"

\* line 126: async_playwright().__aenter__ starts the driver; it is outside the try
PwEnter ==
    /\ pc = "pw_enter"
    /\ \/ /\ driver' = "running"
          /\ pc' = "launch"
       \/ /\ pc' = "raised"
          /\ UNCHANGED driver
    /\ UNCHANGED <<smart_vars, loc_vars, browser, page_url, height, js_result, pending,
                   created, cancels, grew, found, loop_raised, skipped_scrolls,
                   static_runs, navigations, after_scroll>>

\* line 128
Launch ==
    /\ pc = "launch"
    /\ \/ /\ browser' = "open"
          /\ pc' = "new_context"
          /\ UNCHANGED <<smart_vars, loc_vars, driver, page_url, height, js_result,
                         pending, created, cancels, grew, found, loop_raised,
                         skipped_scrolls, static_runs, navigations, after_scroll>>
       \/ Fatal("launch")

\* line 129
NewContext ==
    /\ pc = "new_context"
    /\ \/ /\ pc' = "new_page"
          /\ UNCHANGED <<smart_vars, loc_vars, env_vars, js_result, pending, created,
                         cancels, grew, found, loop_raised, skipped_scrolls, static_runs,
                         navigations, after_scroll>>
       \/ Fatal("new_context")

\* line 130
NewPage ==
    /\ pc = "new_page"
    /\ \/ /\ page_url' = Blank
          /\ pc' = "goto"
          /\ UNCHANGED <<smart_vars, loc_vars, driver, browser, height, js_result,
                         pending, created, cancels, grew, found, loop_raised,
                         skipped_scrolls, static_runs, navigations, after_scroll>>
       \/ Fatal("new_page")

\* line 133, and 135-136 when it raises; the document loaded has some height
Goto ==
    /\ pc = "goto"
    /\ \/ /\ page_url' \in {url, U1}
          /\ pc' = "idle"
          /\ UNCHANGED <<errors, created, i>>
       \/ /\ page_url' \in {Blank, url, U1}
          /\ RecordNavigationError("goto")
    /\ height' \in 0..MaxHeight
    /\ navigations' = navigations + 1
    /\ UNCHANGED <<smart_vars, visited_pages, clicks_performed, scroll_count,
                   previous_height, btn_text, extracted, driver, browser, js_result,
                   pending, cancels, grew, found, loop_raised, skipped_scrolls,
                   static_runs, after_scroll>>

\* line 134, and 135-136 when it raises
Idle ==
    /\ pc = "idle"
    /\ \/ /\ i' = 0
          /\ pc' = "read_prev"
          /\ UNCHANGED <<errors, created>>
       \/ RecordNavigationError("networkidle")
    /\ UNCHANGED <<smart_vars, visited_pages, clicks_performed, scroll_count,
                   previous_height, btn_text, extracted, env_vars, js_result, pending,
                   cancels, grew, found, loop_raised, skipped_scrolls, static_runs,
                   navigations, after_scroll>>

\* line 140
ReadPrev ==
    /\ pc = "read_prev"
    /\ \/ /\ previous_height' = height
          /\ pc' = "scroll"
          /\ UNCHANGED <<smart_vars, errors, visited_pages, clicks_performed,
                         scroll_count, i, btn_text, extracted, env_vars, js_result,
                         pending, created, cancels, grew, found, loop_raised,
                         skipped_scrolls, static_runs, navigations, after_scroll>>
       \/ Swallow

\* line 141: the scroll may make the page load more content
Scroll ==
    /\ pc = "scroll"
    /\ \/ /\ height' \in 0..MaxHeight
          /\ pc' = "settle"
          /\ UNCHANGED <<smart_vars, loc_vars, driver, browser, page_url, js_result,
                         pending, created, cancels, grew, found, loop_raised,
                         skipped_scrolls, static_runs, navigations, after_scroll>>
       \/ Swallow

\* line 143 as an assignment: scroll_count = 1
CountScroll_Reset(c) == 1

\* line 143 left out
CountScroll_Missing(c) == c

\* line 143
CountScroll(c) == c + 1

\* lines 142-143
Settle ==
    /\ pc = "settle"
    /\ \/ /\ scroll_count' = CountScroll(scroll_count)
          /\ after_scroll' = after_scroll \cup {page_url}
          /\ pc' = "read_new"
          /\ UNCHANGED <<smart_vars, errors, visited_pages, clicks_performed, i,
                         previous_height, btn_text, extracted, env_vars, js_result,
                         pending, created, cancels, grew, found, loop_raised,
                         skipped_scrolls, static_runs, navigations>>
       \/ Swallow

\* line 147 without the comparison: the click is tried after every scroll
HeightDidNotGrow_Always(new_height, prev) == TRUE

\* line 147
HeightDidNotGrow(new_height, prev) == new_height <= prev

\* lines 145-147
ReadNew ==
    /\ pc = "read_new"
    /\ \/ /\ pc' = IF HeightDidNotGrow(height, previous_height) THEN "query" ELSE "finally"
          /\ grew' = (grew \/ height > previous_height)
          /\ UNCHANGED <<smart_vars, loc_vars, env_vars, js_result, pending, created,
                         cancels, found, loop_raised, skipped_scrolls, static_runs,
                         navigations, after_scroll>>
       \/ Swallow

\* lines 148-151: query_selector returns an element or None
Query ==
    /\ pc = "query"
    /\ \/ /\ \E button \in BOOLEAN :
                /\ found' = (found \/ button)
                /\ pc' = IF button THEN "visible" ELSE "finally"
          /\ UNCHANGED <<smart_vars, loc_vars, env_vars, js_result, pending, created,
                         cancels, grew, loop_raised, skipped_scrolls, static_runs,
                         navigations, after_scroll>>
       \/ Swallow

\* line 151: button.is_visible()
Visible ==
    /\ pc = "visible"
    /\ \/ /\ pc' \in {"inner_text", "finally"}
          /\ UNCHANGED <<smart_vars, loc_vars, env_vars, js_result, pending, created,
                         cancels, grew, found, loop_raised, skipped_scrolls, static_runs,
                         navigations, after_scroll>>
       \/ Swallow

\* line 152
InnerText ==
    /\ pc = "inner_text"
    /\ \/ /\ btn_text' \in ButtonTexts
          /\ pc' = "click"
          /\ UNCHANGED <<smart_vars, errors, visited_pages, clicks_performed,
                         scroll_count, i, previous_height, extracted, env_vars,
                         js_result, pending, created, cancels, grew, found, loop_raised,
                         skipped_scrolls, static_runs, navigations, after_scroll>>
       \/ Swallow

\* line 154: f"Clicked button: {btn_text[:20]}"
ClickDescription(t) ==
    [prefix |-> "Clicked button: ",
     text |-> SubSeq(t, 1, IF Len(t) < 20 THEN Len(t) ELSE 20)]

\* lines 153-154: the click may navigate the page
Click ==
    /\ pc = "click"
    /\ \/ /\ clicks_performed' = Append(clicks_performed, ClickDescription(btn_text))
          /\ page_url' \in {page_url, U2}
          /\ pc' = "click_idle"
          /\ UNCHANGED <<smart_vars, errors, visited_pages, scroll_count, i,
                         previous_height, btn_text, extracted, driver, browser, height,
                         js_result, pending, created, cancels, grew, found, loop_raised,
                         skipped_scrolls, static_runs, navigations, after_scroll>>
       \/ Swallow

\* lines 155-158: the wait ends or raises; both continue after the if
ClickIdle ==
    /\ pc = "click_idle"
    /\ pc' = "finally"
    /\ UNCHANGED <<smart_vars, loc_vars, env_vars, js_result, pending, created, cancels,
                   grew, found, loop_raised, skipped_scrolls, static_runs, navigations,
                   after_scroll>>

\* lines 161-162: the handler prints the exception and falls through to finally
Except ==
    /\ pc = "except"
    /\ pc' = "finally"
    /\ UNCHANGED <<smart_vars, loc_vars, env_vars, js_result, pending, created, cancels,
                   grew, found, loop_raised, skipped_scrolls, static_runs, navigations,
                   after_scroll>>

\* lines 163-164 and the loop header of line 138
Finally ==
    /\ pc = "finally"
    /\ visited_pages' = visited_pages \cup {page_url}
    /\ IF pending = "cancel"
       THEN /\ pc' = "pw_exit"
            /\ UNCHANGED i
       ELSE /\ i' = i + 1
            /\ pc' = IF i + 1 < LoopIterations THEN "read_prev" ELSE "content"
    /\ UNCHANGED <<smart_vars, errors, clicks_performed, scroll_count, previous_height,
                   btn_text, extracted, env_vars, js_result, pending, created, cancels,
                   grew, found, loop_raised, skipped_scrolls, static_runs, navigations,
                   after_scroll>>

\* lines 166-168: page.content(), page.url and parse_html
Content ==
    /\ pc = "content"
    /\ \/ /\ \E html \in RenderedPages :
                /\ ~TitleRaises(html)
                /\ extracted' = parse_html(html, page_url)
          /\ pc' = "close"
          /\ UNCHANGED <<smart_vars, errors, visited_pages, clicks_performed,
                         scroll_count, i, previous_height, btn_text, env_vars, js_result,
                         pending, created, cancels, grew, found, loop_raised,
                         skipped_scrolls, static_runs, navigations, after_scroll>>
       \/ Fatal("content")
       \/ /\ \E html \in RenderedPages : TitleRaises(html)
          /\ Fatal("AttributeError")

\* lines 172-183
RenderedResult(u, ext, clicks, scrolls, pages, errs) ==
    ScrapeResult(u, ext.meta, ext.sections,
                 [clicks |-> clicks, scrolls |-> scrolls, pages |-> pages], errs)

\* lines 170-183
Close ==
    /\ pc = "close"
    /\ \/ /\ browser' = "closed"
          /\ js_result' = RenderedResult(url, extracted, clicks_performed, scroll_count,
                                         visited_pages, errors)
          /\ pc' = "pw_exit"
          /\ UNCHANGED <<smart_vars, loc_vars, driver, page_url, height, pending,
                         created, cancels, grew, found, loop_raised, skipped_scrolls,
                         static_runs, navigations, after_scroll>>
       \/ Fatal("close")

\* a driver that is never stopped leaves its browser as it is
PlaywrightExit_Leaks(b) == b

\* the browser session once the driver that launched it has stopped
PlaywrightExit(b) == IF b = "open" THEN "closed" ELSE b

\* line 126: async_playwright().__aexit__ stops the driver, on return and on
\* an exception passing through the with block
PwExit ==
    /\ pc = "pw_exit"
    /\ driver' = "stopped"
    /\ browser' = PlaywrightExit(browser)
    /\ pc' = IF pending = "cancel" THEN "cancelled" ELSE "rendered"
    /\ UNCHANGED <<smart_vars, loc_vars, page_url, height, js_result, pending, created,
                   cancels, grew, found, loop_raised, skipped_scrolls, static_runs,
                   navigations, after_scroll>>

(***************************************************************************)
(* Cancellation: task.cancel() raises CancelledError at the await the task *)
(* is suspended in.  CancelledError is no Exception, so only the bare      *)
(* except of line 157, the finally of line 163 and the with block see it.  *)
(***************************************************************************)
LoopTry == {"read_prev", "scroll", "settle", "read_new", "query", "visible",
            "inner_text", "click"}

OuterTry == {"launch", "new_context", "new_page", "goto", "idle", "content", "close"}

AwaitPoints == {"static_get", "pw_enter", "click_idle", "pw_exit"} \cup LoopTry \cup OuterTry

\* CancelledError leaving the function without passing the with block
CancelTarget_NoScope(p) ==
    IF p \in LoopTry \cup {"click_idle"} THEN "finally"
    ELSE IF p = "pw_exit" THEN "pw_exit"
    ELSE "cancelled"

\* where CancelledError raised at await p is handled next
CancelTarget(p) ==
    IF p \in LoopTry \cup {"click_idle"} THEN "finally"
    ELSE IF p \in OuterTry \cup {"pw_exit"} THEN "pw_exit"
    ELSE "cancelled"

\* line 157: the bare except swallows the CancelledError
CancelSwallowed(p) == p = "click_idle"

Cancel ==
    /\ pc \in AwaitPoints
    /\ cancels < MaxCancels
    /\ cancels' = cancels + 1
    /\ pc' = CancelTarget(pc)
    /\ pending' = IF CancelSwallowed(pc) THEN pending ELSE "cancel"
    /\ UNCHANGED <<smart_vars, loc_vars, env_vars, js_result, created, grew, found,
                   loop_raised, skipped_scrolls, static_runs, navigations, after_scroll>>

Next ==
    \/ StaticRequestFails
    \/ StaticResponse
    \/ EscalateInsufficient
    \/ EscalateOnCues
    \/ ReturnStatic
    \/ ReturnRendered
    \/ PwEnter
    \/ Launch
    \/ NewContext
    \/ NewPage
    \/ Goto
    \/ Idle
    \/ ReadPrev
    \/ Scroll
    \/ Settle
    \/ ReadNew
    \/ Query
    \/ Visible
    \/ InnerText
    \/ Click
    \/ ClickIdle
    \/ Except
    \/ Finally
    \/ Content
    \/ Close
    \/ PwExit
    \/ Cancel

Spec == Init /\ [][Next]_vars

TypeOK ==
    /\ pc \in {"static_get", "judge", "pw_enter", "rendered", "done", "raised", "cancelled",
               "except", "finally"} \cup AwaitPoints
    /\ i \in 0..LoopIterations
    /\ scroll_count \in 0..LoopIterations
    /\ browser \in {"none", "open", "closed"}
    /\ driver \in {"none", "running", "stopped"}

(***************************************************************************)
(* Properties                                                              *)
(***************************************************************************)
Range(q) == {q[k] : k \in DOMAIN q}

\* the Document is the one of the except branch of scrape_with_playwright
IsFatal(doc) == \E e \in Range(doc.errors) : e.message[1] = "Playwright fatal error"

\* the lightweight attempt is insufficient, in the words of the specification
LightweightInsufficient ==
    \/ Len(static_result.errors) >= 1
    \/ TotalTextLen(static_result) < 200
    \/ static_result.meta.title = << >>

\* a pagination cue, every comparison made on the lower-cased link text
IsCueAnyCase(t) ==
    \/ Lower(t) = <<"m","o","r","e">>
    \/ \E k \in DOMAIN interaction_keywords : Contains(Lower(t), interaction_keywords[k])

\* a pagination cue, the exact match made on the text as written
IsCueExactMore(t) ==
    \/ Strip(t) = <<"M","o","r","e">>
    \/ \E k \in DOMAIN interaction_keywords : Contains(Lower(t), interaction_keywords[k])

\* C1: scrape_smart never raises to its caller, whatever the outcome of any
\* step: no state has the task ended by an exception.
C1_NeverRaises == pc # "raised"

\* C2: when the lightweight attempt has an Error, or less than 200 characters
\* of text, or an empty title, the renderer is invoked and the Document
\* returned has the renderer's meta, sections and interactions.
C2_EscalatesWhenInsufficient ==
    (pc \notin {"static_get", "judge", "cancelled"} /\ LightweightInsufficient)
        => /\ render_runs = 1
           /\ branch = "insufficient"
           /\ pc = "done" =>
                /\ result.meta = js_result.meta
                /\ result.sections = js_result.sections
                /\ result.interactions = js_result.interactions

\* C2 witness: a lightweight result of 150 characters and no Error was
\* replaced by a rendered Document with content.
C2_Witness ==
    /\ pc = "done"
    /\ static_result.errors = << >>
    /\ TotalTextLen(static_result) = 150
    /\ static_result.meta.title # << >>
    /\ result = js_result
    /\ result.sections # << >>
    /\ result.interactions.scrolls = 3

\* C3: a lightweight result with no Error, a title, at least 200 characters and
\* no pagination-cue link is returned unchanged, and the renderer never runs.
C3_SufficientReturnedUnchanged ==
    (/\ pc \notin {"static_get", "cancelled"}
     /\ ~LightweightInsufficient
     /\ \A t \in LinkTexts(static_result) : ~IsCueAnyCase(t))
        => /\ render_runs = 0
           /\ pc \in {"judge", "done"}
           /\ pc = "done" => result = static_result

\* C3 witness: a lightweight Document of exactly 200 characters was returned.
C3_Witness ==
    /\ pc = "done"
    /\ render_runs = 0
    /\ TotalTextLen(static_result) = 200
    /\ result = static_result
    /\ result.interactions.pages = {fetch.final_url}

\* C4 as written: a sufficient lightweight result escalates if and only if
\* some link text, compared case-insensitively, equals "More" or contains one
\* of the four keywords.
C4_CuesAnyCase ==
    (pc \notin {"static_get", "judge", "cancelled"} /\ ~LightweightInsufficient)
        => (render_runs = 1 <=> \E t \in LinkTexts(static_result) : IsCueAnyCase(t))

\* C4 amended: a sufficient lightweight result escalates if and only if some
\* link text is exactly "More" as written, or contains, case-insensitively,
\* one of the four keywords; "more" and "MORE" alone do not escalate.
C4_CuesExactMore ==
    (pc \notin {"static_get", "judge", "cancelled"} /\ ~LightweightInsufficient)
        => /\ render_runs = 1 <=> \E t \in LinkTexts(static_result) : IsCueExactMore(t)
           /\ render_runs = 1 => branch = "cues"
           /\ LinkTexts(static_result) \subseteq {<<"m","o","r","e">>, <<"M","O","R","E">>}
                => render_runs = 0

\* C4 witness: the link "More" made a sufficient result escalate, and the
\* rendered Document was returned.
C4_Witness ==
    /\ pc = "done"
    /\ ~LightweightInsufficient
    /\ <<"M","o","r","e">> \in LinkTexts(static_result)
    /\ branch = "cues"
    /\ render_runs = 1
    /\ result = js_result

\* C5: when scrape escalates after a lightweight attempt with Errors, each of
\* them is in the errors of the returned Document, whatever the renderer did.
C5_LightweightErrorsKept ==
    (pc = "done" /\ render_runs = 1 /\ static_result.errors # << >>)
        => /\ \A e \in Range(static_result.errors) : e \in Range(result.errors)
           /\ result.errors = js_result.errors \o static_result.errors

\* C5 witness: the fetch Error follows the Error of a fatal rendered attempt.
C5_Witness ==
    /\ pc = "done"
    /\ static_result.errors # << >>
    /\ IsFatal(js_result)
    /\ Len(result.errors) = 2
    /\ result.errors[2] = static_result.errors[1]

\* C6: no Error created during an invocation is discarded: every Error
\* constructed is in the errors of the Document finally returned.
C6_NoErrorDiscarded == pc = "done" => \A e \in created : e \in Range(result.errors)

C9_QuietPage == ~grew /\ ~found /\ ~loop_raised /\ pending = "none"

\* C9: the interaction loop terminates: on a page whose height never grows
\* and that has no affordance, it makes exactly 3 scroll iterations and no
\* click, and the Document returned has scrolls = 3 and no clicks.
C9_LoopTerminates ==
    /\ i <= 3
    /\ pc \in {"content", "close"} => i = 3
    /\ (pc \in {"content", "close"} /\ C9_QuietPage)
            => scroll_count = 3 /\ clicks_performed = << >>
    /\ (pc \in {"rendered", "done"} /\ render_runs = 1 /\ C9_QuietPage /\ ~IsFatal(js_result))
            => /\ js_result.interactions.scrolls = 3
               /\ js_result.interactions.clicks = << >>

\* C9 witness: a rendered attempt on such a page returned its Document.
C9_Witness ==
    /\ pc = "rendered"
    /\ C9_QuietPage
    /\ js_result.interactions.scrolls = 3
    /\ js_result.interactions.clicks = << >>
    /\ js_result.sections # << >>

\* the HTTP exchange failed: network error, timeout or non-2xx status
C10_FetchFailed == fetch.kind # "response" \/ fetch.status \notin 200..299

\* C10: scrape_static never raises; on a failure it returns default meta, no
\* sections and exactly one Error of phase fetch; on success its errors are
\* empty and interactions.pages is exactly the final URL.
C10_StaticContract ==
    /\ pc = "raised" => render_runs = 1
    /\ fetch.kind # "none" =>
          IF C10_FetchFailed
          THEN /\ static_result.meta = DefaultMeta
               /\ static_result.sections = << >>
               /\ Len(static_result.errors) = 1
               /\ static_result.errors[1].phase = "fetch"
          ELSE /\ static_result.errors = << >>
               /\ static_result.interactions.pages = {fetch.final_url}

\* the Meta the specification asks of extract: every absent or empty element
\* gives the default value of its field
C11_DefaultedMeta(html) ==
    [title |-> IF html.title.kind = "string" THEN Strip(html.title.string) ELSE << >>,
     description |-> IF html.description = << >> THEN << >> ELSE Strip(html.description[1]),
     language |-> IF html.lang \in {Absent, ""} THEN "en" ELSE html.lang,
     canonical |-> html.canonical]

\* C11: extract never raises, whatever the markup: a 200 response always gives
\* a lightweight Document without Error whose meta holds the defaulted fields
\* (a title element without text gives the title ""), and no Error of the
\* invocation reports an exception of the extraction.
C11_ExtractNeverRaises ==
    /\ \A e \in created : e.message[2] # "AttributeError"
    /\ (fetch.kind = "response" /\ fetch.status = 200)
            => /\ static_result.errors = << >>
               /\ static_result.meta = C11_DefaultedMeta(fetch.html)
               /\ Len(static_result.sections) = Len(Containers(fetch.html))

\* the lightweight fetch got a document and extract returned for it
C12_Extracted == fetch.kind = "response" /\ fetch.status = 200 /\ static_result.errors = << >>

\* C12: for a document with at least one structural element, extract returns
\* one Section per matched element, nested matches included, in document
\* order, with the ids sec-0, sec-1, ... in that order.
C12_OneSectionPerElement ==
    (C12_Extracted /\ fetch.html.containers # << >>)
        => /\ Len(static_result.sections) = Len(fetch.html.containers)
           /\ \A k \in DOMAIN static_result.sections :
                /\ static_result.sections[k].id = k - 1
                /\ static_result.sections[k].type = SecType(fetch.html.containers[k].name)
                /\ static_result.sections[k].text_len = fetch.html.containers[k].text_len
           /\ \A j, k \in DOMAIN static_result.sections :
                static_result.sections[j].id = static_result.sections[k].id => j = k

\* C12 witness: a section nested in main gave a Section of its own, between
\* the Sections of main and of the footer.
C12_Witness ==
    /\ C12_Extracted
    /\ Len(static_result.sections) = 3
    /\ fetch.html.containers[2].nested
    /\ static_result.sections[2].id = 1
    /\ static_result.sections[2].text_len = 93
    /\ static_result.sections[1].text_len = 217
    /\ static_result.sections[3].type = "footer"

\* C13: every Section has a label of at most 50 characters, from a heading
\* and from the first 5 tokens alike, and a container without text is
\* labelled "Empty Section".
C13_LabelAtMost50 ==
    \A k \in DOMAIN static_result.sections :
        /\ Len(static_result.sections[k].label) <= 50
        /\ (C12_Extracted /\ fetch.html.containers # << >>
                /\ fetch.html.containers[k].heading = << >>
                /\ fetch.html.containers[k].preview = << >>)
              => static_result.sections[k].label = EmptySection

\* the navigation of lines 132-136 failed in this rendered attempt
NavigationFailed == \E e \in Range(errors) : e.message[1] = "Navigation warning"

\* C14: a navigation failure (of the load or of the wait that follows it)
\* records exactly one render Error and does not abort the attempt: the three
\* iterations of the loop are attempted, the DOM is captured and extracted,
\* and the Document the renderer returns carries the extracted meta and
\* sections together with that Error.
C14_NavigationFailureTolerated ==
    (pc = "rendered" /\ NavigationFailed)
        => /\ i = LoopIterations
           /\ extracted # NoExtract
           /\ js_result.meta = extracted.meta
           /\ js_result.sections = extracted.sections
           /\ Len(js_result.errors) = 1
           /\ js_result.errors[1].phase = "render"
           /\ js_result.errors[1].message[1] = "Navigation warning"

\* the renderer has returned a Document that is not the one of lines 185-192
RenderedNonFatal == pc = "rendered" /\ ~IsFatal(js_result)

\* C15: every Document of a rendered attempt that did not fail fatally has
\* interactions.scrolls equal to the number of loop iterations executed (3),
\* also when the height read or the scroll of some iteration raised.
C15_ScrollsIsIterationCount ==
    RenderedNonFatal
        => /\ i = LoopIterations
           /\ js_result.interactions.scrolls = LoopIterations

\* C15, as the code has it: interactions.scrolls is the number of iterations
\* whose height read, scroll and settle wait all completed, that is 3 less the
\* iterations in which one of these steps raised.
C15_ScrollsCountCompleted ==
    RenderedNonFatal
        => /\ i = LoopIterations
           /\ js_result.interactions.scrolls = scroll_count
           /\ js_result.interactions.scrolls + skipped_scrolls = LoopIterations

C15_Witness ==
    /\ RenderedNonFatal
    /\ skipped_scrolls = 1
    /\ js_result.interactions.scrolls = 2

\* the steps of the handler of lines 160-164: entering it, printing, and the
\* finally that goes on with the next iteration
C16_SwallowStep ==
    /\ (pc' = "except" /\ pc # "except")
         => /\ pc \in LoopTry
            /\ errors' = errors
            /\ created' = created
            /\ js_result' = js_result
    /\ pc = "except"
         => /\ pc' = "finally"
            /\ errors' = errors
            /\ created' = created
            /\ js_result' = js_result
            /\ i' = i
    /\ (pc = "finally" /\ pending = "none")
         => /\ i' = i + 1
            /\ pc' = IF i + 1 < LoopIterations THEN "read_prev" ELSE "content"
            /\ errors' = errors
            /\ js_result' = js_result
            /\ js_result = NoDoc

\* the errors of a non-fatal rendered Document are those of the navigation
\* alone, whatever raised inside the loop
C16_NoErrorFromLoop ==
    (loop_raised /\ RenderedNonFatal)
        => /\ i = LoopIterations
           /\ \A e \in Range(js_result.errors) : e.message[1] = "Navigation warning"
           /\ NavigationFailed \/ js_result.errors = << >>

\* C16: an error raised by a step inside one iteration of the loop adds no
\* Error to the Document, does not end the loop (the iterations that remain
\* still run) and does not make the rendered attempt a fatal failure.
C16_IterationErrorSwallowed == [][C16_SwallowStep]_vars /\ []C16_NoErrorFromLoop

C16_Witness ==
    /\ RenderedNonFatal
    /\ loop_raised
    /\ skipped_scrolls = 0
    /\ js_result.errors = << >>
    /\ js_result.interactions.scrolls = LoopIterations

\* the renderer returned the Document of lines 185-192 before line 133 was reached
FailedBeforeNavigation ==
    /\ IsFatal(js_result)
    /\ js_result.errors[1].message[2] \in {"launch", "new_context", "new_page"}

\* the two tiers run in order, each at most once
C17_TierOrder ==
    /\ static_runs <= 1
    /\ render_runs <= 1
    /\ (pc \notin {"static_get", "cancelled"}) => static_runs = 1
    /\ (render_runs = 1) => (static_runs = 1 /\ static_result # NoDoc /\ branch # "none")
    /\ (pc = "done") => (static_runs = 1 /\ render_runs = IF branch = "none" THEN 0 ELSE 1)
    /\ navigations <= render_runs

\* C17: the Lightweight Fetcher runs exactly once and first, the Interactive
\* Renderer at most once and only after the lightweight attempt was judged,
\* no tier is retried, and a rendered attempt performs exactly one navigation.
C17_OneNavigationPerAttempt ==
    /\ C17_TierOrder
    /\ (pc \in {"rendered", "done"} /\ render_runs = 1) => navigations = 1

\* C17, as the code has it: a rendered attempt performs at most one
\* navigation, exactly one when the browser, context and page were created,
\* and none when one of them failed.
C17_AtMostOneNavigation ==
    /\ C17_TierOrder
    /\ (pc \in {"rendered", "done"} /\ render_runs = 1)
         => navigations = IF FailedBeforeNavigation THEN 0 ELSE 1

C17_Witness ==
    /\ pc = "done"
    /\ render_runs = 1
    /\ static_runs = 1
    /\ navigations = 0
    /\ FailedBeforeNavigation

\* C18: in a non-fatal rendered attempt interactions.pages contains the
\* initial URL and every URL the page was at right after each scroll step of
\* the loop, before any click of that iteration; so when the requested URL
\* redirects and a click of the first iteration navigates away, the
\* post-redirect URL seen after the first scroll is still in pages.
C18_PagesAfterEachScroll ==
    RenderedNonFatal
        => /\ url \in js_result.interactions.pages
           /\ after_scroll \subseteq js_result.interactions.pages

\* the steps of lines 148-154, which lead to the click
ClickPath == {"query", "visible", "inner_text", "click"}

\* C19: in every state of a rendered attempt and in every returned Document,
\* recorded clicks <= scrolls <= 3; a click is attempted only in an iteration
\* whose scroll step completed and whose height did not grow, at most one
\* click is recorded per iteration, and a Document of the lightweight tier
\* alone has scrolls = 0 and no clicks.
C19_ClicksAtMostScrolls ==
    /\ Len(clicks_performed) <= scroll_count
    /\ scroll_count <= LoopIterations
    /\ Len(clicks_performed) <= (IF pc \in {"click_idle", "except", "finally"} THEN i + 1 ELSE i)
    /\ (pc \in ClickPath)
         => /\ height <= previous_height
            /\ scroll_count + skipped_scrolls = i + 1
            /\ Len(clicks_performed) <= i
    /\ (js_result # NoDoc)
         => /\ Len(js_result.interactions.clicks) <= js_result.interactions.scrolls
            /\ js_result.interactions.scrolls <= LoopIterations
    /\ (static_result # NoDoc)
         => /\ static_result.interactions.scrolls = 0
            /\ static_result.interactions.clicks = << >>
    /\ (result # NoDoc)
         => /\ Len(result.interactions.clicks) <= result.interactions.scrolls
            /\ result.interactions.scrolls <= LoopIterations
            /\ (render_runs = 0)
                 => /\ result.interactions.scrolls = 0
                    /\ result.interactions.clicks = << >>

C19_Witness ==
    /\ pc = "done"
    /\ render_runs = 1
    /\ grew
    /\ Len(result.interactions.clicks) = 2
    /\ result.interactions.scrolls = LoopIterations

\* the number of Errors of phase ph in a sequence of Errors
RECURSIVE CountPhase(_, _)
CountPhase(errs, ph) ==
    IF errs = << >> THEN 0
    ELSE (IF Head(errs).phase = ph THEN 1 ELSE 0) + CountPhase(Tail(errs), ph)

\* C20: every Document scrape returns has at most two Errors: at most one of
\* phase fetch, at most one of phase render, none of phase parse; when both
\* are present the render Error precedes the fetch Error; and a Document
\* returned without escalation has no Errors.
C20_ErrorShape ==
    (pc = "done")
        => /\ Len(result.errors) <= 2
           /\ CountPhase(result.errors, "fetch") <= 1
           /\ CountPhase(result.errors, "render") <= 1
           /\ CountPhase(result.errors, "parse") = 0
           /\ \A e \in Range(result.errors) : e.phase \in {"fetch", "render"}
           /\ (Len(result.errors) = 2)
                => (result.errors[1].phase = "render" /\ result.errors[2].phase = "fetch")
           /\ (render_runs = 0) => result.errors = << >>

C20_Witness ==
    /\ pc = "done"
    /\ Len(result.errors) = 2
    /\ result.errors[1].message[1] = "Navigation warning"
    /\ result.errors[2].phase = "fetch"

====
